---- MODULE Spec2Model ----
(***************************************************************************)
(* Model of scripts/load_test_users.py: the UserLoadTester harness         *)
(* (register_user, login_user, create_users_batch, the two rate-limit      *)
(* tests, print_summary) and its driver main().                            *)
(*                                                                         *)
(* The remote service is an external collaborator: each Register / Login   *)
(* call is answered by the environment with one of                         *)
(*   "ok"        a response                                                *)
(*   "exhausted" grpc.RpcError with StatusCode.RESOURCE_EXHAUSTED          *)
(*   "error"     grpc.RpcError with any other status                       *)
(*   "raise"     an exception that is not a grpc.RpcError                  *)
(* KeyboardInterrupt reaches main's thread at any point: between two calls, *)
(* inside register_user / login_user (before the call is sent, while it    *)
(* waits in the stub, after the counter is stored), in the except clauses  *)
(* and in the finally clause.                                              *)
(* `self.stats[k] += 1` is a load, an add and a store; in the worker       *)
(* threads of create_users_batch the load and the store are separate steps.*)
(* Printing, sleeping and stats['total_time'] (wall-clock) are left out.   *)
(*                                                                         *)
(* Two callers drive the class. "main" is main(): connect, the register    *)
(* test, the login test, the prompt, the bulk creation, the summary, all   *)
(* inside its try statement. "script" is a user of the class that runs the *)
(* bulk creation before the login test (connect, create_users_batch,       *)
(* test_rate_limiting_login, print_summary, disconnect) with no try        *)
(* statement, so that test_rate_limiting_login is also entered with a      *)
(* non-empty created_users, which main never does.                         *)
(***************************************************************************)
EXTENDS Integers, Sequences, FiniteSets, TLC

\* ------------------------------------------------------------- bounds
NumUsers == 3          \* num_users (10000 in main), scaled down
MaxWorkers == 2        \* max_workers (20 in main), scaled down
MaxAttempts == 1       \* largest `attempts` (10 in main) under a free stub
MaxStubAttempts == 8   \* largest `attempts` under the every-4th stub

\* ------------------------------------------------------------- constants
TestUserIndex == 999999   \* register_user(999999) in test_rate_limiting_login
PasswordLen == 12         \* k=12 in generate_random_password
RejectEvery == 4          \* the mocked stub rejects every 4th Register call

Users == 0 .. (NumUsers - 1)

RegisterKeys == {"register_success", "register_failed", "register_rate_limited"}
LoginKeys == {"login_success", "login_failed", "login_rate_limited"}
StatKeys == RegisterKeys \cup LoginKeys

VARIABLES
    caller,         \* "main": main(); "script": a caller that runs the bulk creation first
    stubMode,       \* "contract" | "every4th" | "raising": what the remote stub may answer
    attempts,       \* the `attempts` argument of the two rate-limit tests
    pc,             \* position of the main thread
    i,              \* loop index of the running loop (test loops, submit loop)
    test_user,      \* test_rate_limiting_login's test_user (NoResult before it is set)
    stats,          \* self.stats, the six counters
    created_users,  \* self.created_users
    fpc,            \* per future: "new" | "queued" | "taken" | "calling" | "loaded" | "finished"
    fout,           \* per future: the outcome of its Register call ("none" before)
    fcall,          \* per future: ordinal of its Register call at the stub (0 before)
    rd,             \* per future: the counter value its worker loaded (0 once stored)
    fres,           \* per future: the result register_user returned (NoResult before)
    collected,      \* futures as_completed has yielded and whose result() returned
    pending,        \* exception propagating in the main thread: "none" | "interrupt" | "exception"
    batch,          \* create_users_batch: "not_run" | "running" | "returned" | "raised"
    endedBy,        \* what ended main's try body: "none" | "interrupt" | "exception"
    logged,         \* an except clause of main printed its message
    summaryPrinted, \* print_summary ran to its end
    disconnected,   \* tester.disconnect() ran
    regInvoked,     \* history: register_user invocations
    regCalls,       \* history: Register calls sent to the stub
    loginInvoked,   \* history: login_user invocations
    loginCalls,     \* history: Login calls sent to the stub
    regSucceeded,   \* history: register_user calls that returned success
    regCut,         \* history: register_user invocations interrupted before their call was sent
    loginCut,       \* history: login_user invocations interrupted before their call was sent
    regSumAtStart,  \* history: sum of the register counters when create_users_batch began
    loginTest,      \* history: test_rate_limiting_login "not_run" | "running" | "skipped" |
                    \* "returned" | "raised" (left by an exception before its loop)
    loginCreds,     \* history: <<email, password>> pairs sent in Login calls
    result          \* the local `result` of the running rate-limit test loop

vars == <<caller, stubMode, attempts, pc, i, test_user, stats, created_users,
          fpc, fout, fcall, rd, fres, collected, pending, batch, endedBy,
          logged, summaryPrinted, regInvoked, regCalls, loginInvoked,
          loginCalls, regSucceeded, regSumAtStart, loginTest, loginCreds, result,
          disconnected, regCut, loginCut>>

config == <<caller, stubMode, attempts>>
poolVars == <<fpc, fout, fcall, rd, fres>>
exc == <<pending, endedBy>>
flags == <<logged, summaryPrinted, disconnected>>
batchHist == <<batch, regSumAtStart>>
regHist == <<regInvoked, regCalls, regSucceeded, regCut>>
loginHist == <<loginInvoked, loginCalls, loginCreds, loginCut>>

\* ------------------------------------------------------------- data
\* f"user{index}_{random_suffix}@loadtest.com": the index part identifies the
\* address; the random suffix is not recorded.
generate_random_email(index) == <<"user", index[1], index[2], "@loadtest.com">>

\* ''.join(random.choices(..., k=12)): recorded by its length.
generate_random_password == PasswordLen

NoResult == [success |-> FALSE, rate_limited |-> FALSE, error |-> "", email |-> <<>>,
             password |-> 0, user_id |-> 0]

\* The dict register_user returns. A key the dict lacks ('rate_limited' and
\* 'error' on success; email, password, user_id on failure) reads as FALSE /
\* empty / 0. 'error' is str(e), which names the status of the RpcError.
RegisterResult(index, o, uid) ==
    IF o = "ok"
    THEN [success |-> TRUE, rate_limited |-> FALSE, error |-> "",
          email |-> generate_random_email(index),
          password |-> generate_random_password, user_id |-> uid]
    ELSE [success |-> FALSE, rate_limited |-> (o = "exhausted"), error |-> o,
          email |-> <<>>, password |-> 0, user_id |-> 0]

\* The dict login_user returns (the access token is not recorded).
LoginResult(o) ==
    [success |-> (o = "ok"), rate_limited |-> (o = "exhausted"),
     error |-> IF o = "ok" THEN "" ELSE o]

\* The counter register_user increments for a call that ended with outcome o.
RegisterKey(o) ==
    CASE o = "ok" -> "register_success"
      [] o = "exhausted" -> "register_rate_limited"
      [] OTHER -> "register_failed"

\* The counter login_user increments for a call that ended with outcome o.
LoginKey(o) ==
    CASE o = "ok" -> "login_success"
      [] o = "exhausted" -> "login_rate_limited"
      [] OTHER -> "login_failed"

\* `= 1` written for `+= 1`.
StoredAssigned(s, k, v) == [s EXCEPT ![k] = 1]

\* self.stats[k] += 1 from the value v that was loaded.
Stored(s, k, v) == [s EXCEPT ![k] = v + 1]

\* ------------------------------------------------------------- the remote stub
\* What the stub may answer to the n-th Register call.
StubRegister(n) ==
    CASE stubMode = "every4th" ->
            {IF n % RejectEvery = 0 THEN "exhausted" ELSE "ok"}
      [] stubMode = "raising" -> {"ok", "exhausted", "error", "raise"}
      [] OTHER -> {"ok", "exhausted", "error"}

\* What the stub may answer to a Login call (the mocked stub accepts them all).
StubLogin ==
    CASE stubMode = "every4th" -> {"ok"}
      [] stubMode = "raising" -> {"ok", "exhausted", "error", "raise"}
      [] OTHER -> {"ok", "exhausted", "error"}

\* The id the service gives the user of its n-th Register call.
StubUserId(n) == n

\* ------------------------------------------------------------- helpers
\* An attempt that re-sends a rate-limited call once.
CallsSentWithRetry(o) == IF o = "exhausted" THEN 2 ELSE 1

\* The number of remote calls one attempt sends, whatever its outcome: the try
\* block holds one call and no loop.
CallsSent(o) == 1

\* Where the caller goes after an operation returns.
AfterLoginTest == IF caller = "main" THEN "input" ELSE "summary"
AfterBatch == IF caller = "main" THEN "summary" ELSE "login_begin"

\* Futures whose work item a worker thread is executing.
Running == {u \in Users : fpc[u] \in {"taken", "calling", "loaded"}}

\* A pool that starts a thread per work item.
PoolUnbounded == TRUE

\* ThreadPoolExecutor(max_workers=max_workers): a queued work item starts only
\* while fewer than max_workers threads are busy.
PoolHasIdleWorker == Cardinality(Running) < MaxWorkers

\* The sum of the register counters.
RegisterSum(s) ==
    s["register_success"] + s["register_failed"] + s["register_rate_limited"]

\* The sum of the login counters.
LoginSum(s) ==
    s["login_success"] + s["login_failed"] + s["login_rate_limited"]

\* test_rate_limiting_login without the `if not test_user['success']` return.
AfterTestUserUnchecked(r) == "login_loop"

\* test_rate_limiting_login after it registered its own test user with result
\* r: it goes on to the login loop, or prints and returns.
AfterTestUser(r) == IF r.success THEN "login_loop" ELSE AfterLoginTest

\* Whether the except clause that handles exception kind k calls print_summary.
HandlerPrintsSummary(k) == k = "interrupt"

\* Where a KeyboardInterrupt may cut an invocation of register_user /
\* login_user made by the main thread: not at all, before its call is sent,
\* while it waits in the stub, or after it stored the counter and before it
\* returns.
CutPoints ==
    IF caller = "main"
    THEN {"none", "before_call", "in_call", "after_store"}
    ELSE {"none"}

\* The call was sent to the stub.
Sent(cut) == cut # "before_call"

\* The stub's answer o reached the except clause / the statement after the call.
Answered(cut) == cut \in {"none", "after_store"}

\* The invocation incremented a counter: `except grpc.RpcError` catches the
\* RpcErrors only.
Counted(o, cut) == Answered(cut) /\ o # "raise"

\* The invocation returned its dict to the caller.
Returned(o, cut) == cut = "none" /\ o # "raise"

\* The kind of exception that leaves an invocation that did not return.
KindOf(o, cut) ==
    IF Answered(cut) /\ o = "raise" THEN "exception" ELSE "interrupt"

\* An exception of kind k leaves the current operation in the main thread:
\* main's try statement catches it, another caller does not.
Propagate(k) ==
    /\ pending' = k
    /\ IF caller = "main"
       THEN pc' = "except" /\ endedBy' = endedBy
       ELSE pc' = "exited" /\ endedBy' = k

\* register_user(index) run in the calling thread, the remote call ending with
\* outcome o, the invocation cut at `cut`.
register_user(index, o, cut) ==
    LET k == RegisterKey(o)
    IN  /\ regInvoked' = regInvoked + 1
        /\ regCalls' = IF Sent(cut) THEN regCalls + CallsSent(o) ELSE regCalls
        /\ regCut' = IF Sent(cut) THEN regCut ELSE regCut + 1
        /\ stats' = IF Counted(o, cut) THEN Stored(stats, k, stats[k]) ELSE stats
        /\ regSucceeded' = IF Returned(o, cut) /\ o = "ok"
                           THEN regSucceeded + 1 ELSE regSucceeded

\* login_user(email, password) run in the calling thread, the remote call
\* ending with o, the invocation cut at `cut`.
login_user(email, password, o, cut) ==
    LET k == LoginKey(o)
    IN  /\ loginInvoked' = loginInvoked + 1
        /\ loginCalls' = IF Sent(cut) THEN loginCalls + CallsSent(o) ELSE loginCalls
        /\ loginCut' = IF Sent(cut) THEN loginCut ELSE loginCut + 1
        /\ loginCreds' = IF Sent(cut) THEN loginCreds \cup {<<email, password>>}
                         ELSE loginCreds
        /\ stats' = IF Counted(o, cut) THEN Stored(stats, k, stats[k]) ELSE stats

\* ------------------------------------------------------------- initial states
InitWith(modes) ==
    /\ caller \in {"main", "script"}
    /\ stubMode \in modes
    /\ attempts \in 0 .. (IF stubMode = "every4th" THEN MaxStubAttempts ELSE MaxAttempts)
    /\ pc = "connect"
    /\ i = 0
    /\ test_user = NoResult
    /\ stats = [k \in StatKeys |-> 0]
    /\ created_users = <<>>
    /\ fpc = [u \in Users |-> "new"]
    /\ fout = [u \in Users |-> "none"]
    /\ fcall = [u \in Users |-> 0]
    /\ rd = [u \in Users |-> 0]
    /\ fres = [u \in Users |-> NoResult]
    /\ collected = {}
    /\ pending = "none"
    /\ batch = "not_run"
    /\ endedBy = "none"
    /\ logged = FALSE
    /\ summaryPrinted = FALSE
    /\ disconnected = FALSE
    /\ regCut = 0
    /\ loginCut = 0
    /\ regInvoked = 0
    /\ regCalls = 0
    /\ loginInvoked = 0
    /\ loginCalls = 0
    /\ regSucceeded = 0
    /\ regSumAtStart = 0
    /\ loginTest = "not_run"
    /\ loginCreds = {}
    /\ result = NoResult

Init == InitWith({"contract"})
InitEvery4th == InitWith({"every4th"})
InitRaising == InitWith({"raising"})

\* ------------------------------------------------------------- main thread
\* tester.connect(), then the caller's first operation.
connect ==
    /\ pc = "connect"
    /\ pc' = IF caller = "main" THEN "register_test" ELSE "submit"
    /\ batch' = IF caller = "main" THEN batch ELSE "running"
    /\ regSumAtStart' = RegisterSum(stats)
    /\ i' = 0
    /\ UNCHANGED <<config, result, test_user, loginTest, stats, created_users,
                   poolVars, collected, exc, flags, regHist, loginHist>>

\* One iteration of the loop of test_rate_limiting_register.
register_test_step ==
    /\ pc = "register_test"
    /\ i < attempts
    /\ \E o \in StubRegister(regCalls + 1), cut \in CutPoints :
          /\ register_user(<<"ratelimit_test_", i>>, o, cut)
          /\ IF ~Returned(o, cut)
             THEN Propagate(KindOf(o, cut)) /\ i' = 0 /\ result' = NoResult
             ELSE /\ result' = RegisterResult(<<"ratelimit_test_", i>>, o,
                                              StubUserId(regCalls + 1))
                  /\ i' = i + 1
                  /\ UNCHANGED <<pc, exc>>
    /\ UNCHANGED <<config, test_user, loginTest, created_users, poolVars,
                   collected, flags, batchHist, loginHist>>

\* The loop of test_rate_limiting_register is over: it prints and returns.
register_test_end ==
    /\ pc = "register_test"
    /\ i = attempts
    /\ pc' = "login_begin"
    /\ i' = 0
    /\ result' = NoResult
    /\ UNCHANGED <<config, test_user, loginTest, stats, created_users, poolVars,
                   collected, exc, flags, batchHist, regHist, loginHist>>

\* test_rate_limiting_login up to its loop: the choice of test_user.
login_test_begin ==
    /\ pc = "login_begin"
    /\ i' = 0
    /\ IF created_users # <<>>
       THEN /\ test_user' = created_users[1]
            /\ pc' = "login_loop"
            /\ loginTest' = "running"
            /\ UNCHANGED <<stats, regHist, exc>>
       ELSE \E o \in StubRegister(regCalls + 1), cut \in CutPoints :
              /\ register_user(<<"", TestUserIndex>>, o, cut)
              /\ IF ~Returned(o, cut)
                 THEN /\ Propagate(KindOf(o, cut))
                      /\ test_user' = test_user
                      /\ loginTest' = "raised"
                 ELSE LET r == RegisterResult(<<"", TestUserIndex>>, o,
                                              StubUserId(regCalls + 1))
                      IN  /\ test_user' = r
                          /\ pc' = AfterTestUser(r)
                          /\ loginTest' = IF AfterTestUser(r) = "login_loop"
                                          THEN "running" ELSE "skipped"
                          /\ UNCHANGED exc
    /\ UNCHANGED <<config, result, created_users, poolVars, collected, flags,
                   batchHist, loginHist>>

\* One iteration of the loop of test_rate_limiting_login.
login_test_step ==
    /\ pc = "login_loop"
    /\ i < attempts
    /\ \E o \in StubLogin, cut \in CutPoints :
          /\ login_user(test_user.email, test_user.password, o, cut)
          /\ IF ~Returned(o, cut)
             THEN Propagate(KindOf(o, cut)) /\ i' = 0 /\ result' = NoResult
             ELSE /\ result' = LoginResult(o)
                  /\ i' = i + 1
                  /\ UNCHANGED <<pc, exc>>
    /\ UNCHANGED <<config, test_user, loginTest, created_users, poolVars,
                   collected, flags, batchHist, regHist>>

\* The loop of test_rate_limiting_login is over: it prints and returns.
login_test_end ==
    /\ pc = "login_loop"
    /\ i = attempts
    /\ pc' = AfterLoginTest
    /\ i' = 0
    /\ result' = NoResult
    /\ loginTest' = "returned"
    /\ UNCHANGED <<config, test_user, stats, created_users, poolVars, collected,
                   exc, flags, batchHist, regHist, loginHist>>

\* main's input(...) prompt: yes, anything else, or EOFError on a closed stdin.
input_step ==
    /\ pc = "input"
    /\ \E answer \in {"yes", "no", "eof"} :
          CASE answer = "yes" ->
                 /\ pc' = "submit"
                 /\ batch' = "running"
                 /\ regSumAtStart' = RegisterSum(stats)
                 /\ UNCHANGED exc
            [] answer = "no" ->
                 /\ pc' = "summary"
                 /\ UNCHANGED <<exc, batchHist>>
            [] OTHER ->
                 /\ Propagate("exception")
                 /\ UNCHANGED batchHist
    /\ i' = 0
    /\ UNCHANGED <<config, result, test_user, loginTest, stats, created_users,
                   poolVars, collected, flags, regHist, loginHist>>

\* tester.print_summary() at the end of the try body.
print_summary ==
    /\ pc = "summary"
    /\ summaryPrinted' = TRUE
    /\ pc' = "finally"
    /\ UNCHANGED <<config, i, result, test_user, loginTest, stats, created_users,
                   poolVars, collected, exc, logged, disconnected, batchHist,
                   regHist, loginHist>>

\* KeyboardInterrupt delivered to the main thread between two calls. Inside
\* the try body the KeyboardInterrupt clause catches it; the locals of the
\* interrupted function (loop index, result, the as_completed generator) are
\* gone with its frame. Inside the with block the exception first waits in
\* executor.shutdown(wait=True); a further interrupt during that wait leaves
\* create_users_batch at once, with work items still queued or running. In an
\* except clause it cuts the handler short (before or after its message,
\* print_summary unfinished) and leaves main() through the finally clause; in
\* the finally clause it leaves main() with disconnect() done or not.
interrupt ==
    /\ caller = "main"
    /\ pc \in {"connect", "register_test", "login_begin", "login_loop", "input",
               "submit", "collect", "unwind", "summary", "except", "finally"}
    /\ pending' = "interrupt"
    /\ pc' = CASE pc \in {"submit", "collect"} -> "unwind"
               [] pc = "except" -> "finally"
               [] pc = "finally" -> "exited"
               [] OTHER -> "except"
    /\ batch' = IF pc = "unwind" THEN "raised" ELSE batch
    /\ endedBy' = IF pc = "except" THEN pending ELSE endedBy
    /\ \E b \in BOOLEAN :
          /\ logged' = IF pc = "except" THEN (logged \/ b) ELSE logged
          /\ disconnected' = IF pc = "finally" THEN b ELSE disconnected
    /\ result' = NoResult
    /\ i' = 0
    /\ collected' = {}
    /\ UNCHANGED <<config, test_user, loginTest, stats, created_users, poolVars,
                   summaryPrinted, regSumAtStart, regHist, loginHist>>

\* main's except clauses run to their end: KeyboardInterrupt and Exception.
main_except ==
    /\ pc = "except"
    /\ endedBy' = pending
    /\ logged' = TRUE
    /\ summaryPrinted' = (summaryPrinted \/ HandlerPrintsSummary(pending))
    /\ pending' = "none"
    /\ pc' = "finally"
    /\ UNCHANGED <<config, i, result, test_user, loginTest, stats, created_users,
                   poolVars, collected, disconnected, batchHist, regHist, loginHist>>

\* main's finally clause (for another caller: its disconnect()), then the end;
\* an exception that no clause caught leaves main() (pending keeps it).
main_finally ==
    /\ pc = "finally"
    /\ pc' = "exited"
    /\ disconnected' = TRUE
    /\ UNCHANGED <<config, i, result, test_user, loginTest, stats, created_users,
                   poolVars, collected, exc, logged, summaryPrinted, batchHist,
                   regHist, loginHist>>

\* ------------------------------------------------------------- create_users_batch
\* One iteration of the submit loop: executor.submit(self.register_user, i).
submit ==
    /\ pc = "submit"
    /\ i < NumUsers
    /\ fpc' = [fpc EXCEPT ![i] = "queued"]
    /\ i' = i + 1
    /\ pc' = IF i + 1 = NumUsers THEN "collect" ELSE "submit"
    /\ UNCHANGED <<config, result, test_user, loginTest, stats, created_users,
                   fout, fcall, rd, fres, collected, exc, flags, batchHist,
                   regHist, loginHist>>

\* A worker thread takes the oldest queued work item: register_user(u) begins
\* (lines 76-85). The workers go on wherever the main thread is.
worker_start(u) ==
    /\ fpc[u] = "queued"
    /\ \A v \in Users : v < u => fpc[v] # "queued"
    /\ PoolHasIdleWorker
    /\ fpc' = [fpc EXCEPT ![u] = "taken"]
    /\ regInvoked' = regInvoked + 1
    /\ UNCHANGED <<config, pc, i, result, test_user, loginTest, stats,
                   created_users, fout, fcall, rd, fres, collected, exc, flags,
                   batchHist, regCalls, regSucceeded, regCut, loginHist>>

\* The worker's Register call reaches the stub: the calls of the workers
\* arrive in any order.
worker_send(u) ==
    /\ fpc[u] = "taken"
    /\ fpc' = [fpc EXCEPT ![u] = "calling"]
    /\ fcall' = [fcall EXCEPT ![u] = regCalls + 1]
    /\ regCalls' = regCalls + 1
    /\ UNCHANGED <<config, pc, i, result, test_user, loginTest, stats,
                   created_users, fout, rd, fres, collected, exc, flags,
                   batchHist, regInvoked, regSucceeded, regCut, loginHist>>

\* The Register call of future u ends with outcome o. An exception that is not
\* an RpcError ends the work item; otherwise the worker loads the counter it
\* is about to increment. worker_send counted the call already.
worker_returns(u) ==
    /\ fpc[u] = "calling"
    /\ \E o \in StubRegister(fcall[u]) :
          /\ fout' = [fout EXCEPT ![u] = o]
          /\ regCalls' = regCalls + CallsSent(o) - 1
          /\ IF o = "raise"
             THEN fpc' = [fpc EXCEPT ![u] = "finished"] /\ rd' = rd
             ELSE /\ fpc' = [fpc EXCEPT ![u] = "loaded"]
                  /\ rd' = [rd EXCEPT ![u] = stats[RegisterKey(o)]]
    /\ UNCHANGED <<config, pc, i, result, test_user, loginTest, stats,
                   created_users, fcall, fres, collected, exc, flags, batchHist,
                   regInvoked, regSucceeded, regCut, loginHist>>

\* The worker stores the incremented counter and register_user returns: the
\* future holds its result.
worker_store(u) ==
    /\ fpc[u] = "loaded"
    /\ LET k == RegisterKey(fout[u])
           r == RegisterResult(<<"", u>>, fout[u], StubUserId(fcall[u]))
       IN  /\ stats' = Stored(stats, k, rd[u])
           /\ fres' = [fres EXCEPT ![u] = r]
           /\ regSucceeded' = IF r.success THEN regSucceeded + 1 ELSE regSucceeded
    /\ fpc' = [fpc EXCEPT ![u] = "finished"]
    /\ rd' = [rd EXCEPT ![u] = 0]
    /\ UNCHANGED <<config, pc, i, result, test_user, loginTest, created_users,
                   fout, fcall, collected, exc, flags, batchHist, regInvoked,
                   regCalls, regCut, loginHist>>

\* What the collection loop does with the result r of a finished future.
Collected(users, r) == IF r.success THEN Append(users, r) ELSE users

\* One iteration of the collection loop: as_completed yields a finished
\* future, future.result() returns its result or raises its exception.
collect(u) ==
    /\ pc = "collect"
    /\ fpc[u] = "finished"
    /\ u \notin collected
    /\ IF fout[u] = "raise"
       THEN /\ pending' = "exception"
            /\ pc' = "unwind"
            /\ UNCHANGED <<collected, created_users>>
       ELSE /\ collected' = collected \cup {u}
            /\ created_users' = Collected(created_users, fres[u])
            /\ UNCHANGED <<pc, pending>>
    /\ UNCHANGED <<config, i, result, test_user, loginTest, stats, poolVars,
                   endedBy, flags, batchHist, regHist, loginHist>>

\* The collection loop has taken every future: the with block ends and
\* create_users_batch prints and returns.
batch_return ==
    /\ pc = "collect"
    /\ collected = Users
    /\ batch' = "returned"
    /\ pc' = AfterBatch
    /\ i' = 0
    /\ UNCHANGED <<config, result, test_user, loginTest, stats, created_users,
                   poolVars, collected, exc, flags, regSumAtStart, regHist,
                   loginHist>>

\* An exception leaves the with block: executor.shutdown(wait=True) lets every
\* submitted work item run to its end, then the exception leaves
\* create_users_batch.
pool_shutdown ==
    /\ pc = "unwind"
    /\ \A u \in Users : fpc[u] \in {"new", "finished"}
    /\ batch' = "raised"
    /\ IF caller = "main"
       THEN pc' = "except" /\ endedBy' = endedBy
       ELSE pc' = "exited" /\ endedBy' = pending
    /\ UNCHANGED <<config, i, result, test_user, loginTest, stats, created_users,
                   poolVars, collected, pending, flags, regSumAtStart, regHist,
                   loginHist>>

\* ------------------------------------------------------------- specifications
Next ==
    \/ connect
    \/ register_test_step
    \/ register_test_end
    \/ login_test_begin
    \/ login_test_step
    \/ login_test_end
    \/ input_step
    \/ print_summary
    \/ interrupt
    \/ main_except
    \/ main_finally
    \/ submit
    \/ \E u \in Users : worker_start(u)
    \/ \E u \in Users : worker_send(u)
    \/ \E u \in Users : worker_returns(u)
    \/ \E u \in Users : worker_store(u)
    \/ \E u \in Users : collect(u)
    \/ batch_return
    \/ pool_shutdown

\* The remote stub keeps its contract: a response or an RpcError.
Spec == Init /\ [][Next]_vars

\* The mocked stub that rejects every 4th Register call.
SpecEvery4th == InitEvery4th /\ [][Next]_vars

\* A call may also raise an exception that is not an RpcError.
SpecRaising == InitRaising /\ [][Next]_vars

\* ------------------------------------------------------------- properties
Range(q) == {q[n] : n \in 1 .. Len(q)}

\* No Register call is in flight and no returned result waits to be collected.
Quiescent ==
    /\ Running = {}
    /\ pc \in {"submit", "collect"} =>
          \A u \in Users : fpc[u] = "finished" => u \in collected

\* C1: when create_users_batch returns, register_success + register_failed +
\* register_rate_limited has grown by exactly num_users since it began.
C1_BatchCountsEveryAttempt ==
    (batch = "returned" /\ pc = AfterBatch) =>
        RegisterSum(stats) = regSumAtStart + NumUsers

\* C2: once no registration is in flight, created_users holds exactly the
\* successful registrations: as many entries as register_user calls returned
\* success, no entry twice, each a success with non-empty email, password and id.
C2_CreatedUsersAreTheSuccesses ==
    Quiescent =>
        /\ Len(created_users) = regSucceeded
        /\ Cardinality(Range(created_users)) = Len(created_users)
        /\ \A r \in Range(created_users) :
              r.success /\ r.email # <<>> /\ r.password > 0 /\ r.user_id > 0

\* C3: no step lowers any of the six counters of stats.
C3_CountersNeverDecrease ==
    [][\A k \in StatKeys : stats'[k] >= stats[k]]_vars

\* C4: whatever the calls raise, create_users_batch ends only by returning,
\* with the result of every submitted attempt collected (a KeyboardInterrupt
\* aside).
C4_EveryAttemptCollected ==
    (batch \in {"returned", "raised"} /\ pending # "interrupt" /\ endedBy # "interrupt") =>
        (batch = "returned" /\ collected = Users)

\* A call that returned the dict r, having loaded the value base of the counter
\* it increments, changed stats as its outcome requires.
ClassifiedAs(r, success, limited, failed, base) ==
    LET k == CASE r.error = "exhausted" -> limited
               [] r.error = "" -> success
               [] OTHER -> failed
    IN  /\ stats' = [stats EXCEPT ![k] = base + 1]
        /\ r.rate_limited = (r.error = "exhausted")
        /\ r.success = (r.error = "")
        /\ created_users' = created_users

RegisterClassified(r, base) ==
    ClassifiedAs(r, "register_success", "register_rate_limited", "register_failed",
                 base[IF r.error = "exhausted" THEN "register_rate_limited"
                      ELSE IF r.error = "" THEN "register_success"
                      ELSE "register_failed"])

LoginClassified(r) ==
    ClassifiedAs(r, "login_success", "login_rate_limited", "login_failed",
                 stats[IF r.error = "exhausted" THEN "login_rate_limited"
                       ELSE IF r.error = "" THEN "login_success"
                       ELSE "login_failed"])

\* C5: every register_user / login_user call that returns increments exactly
\* the counter of its outcome (RESOURCE_EXHAUSTED: rate_limited, and the result
\* says rate_limited; another RpcError: failed; a response: success) by one,
\* changes no other counter and leaves created_users alone, in the calling
\* thread and in the worker threads of the pool.
C5_CallsClassified ==
    [][ /\ (pc = "register_test" /\ regInvoked' # regInvoked /\ pc' = pc) =>
              RegisterClassified(result', stats)
        /\ (pc = "login_begin" /\ regInvoked' # regInvoked /\ pending' = pending) =>
              RegisterClassified(test_user', stats)
        /\ (pc = "login_loop" /\ loginInvoked' # loginInvoked /\ pc' = pc) =>
              LoginClassified(result')
        /\ \A u \in Users :
              (fpc[u] = "loaded" /\ fpc'[u] = "finished") =>
                  RegisterClassified(fres'[u], stats)
      ]_vars

\* C6: when an interrupt or an unexpected exception ended main's run, and no
\* further interrupt cut its handler short, the error was logged and
\* print_summary ran before the process exited.
C6_SummaryBeforeExit ==
    (caller = "main" /\ pc = "exited" /\ pending = "none"
        /\ endedBy \in {"interrupt", "exception"}) =>
        (logged /\ summaryPrinted)

\* C7: under the stub that rejects every 4th Register call, after N attempts
\* of test_rate_limiting_register the counters are floor(N/4) rate-limited,
\* N - floor(N/4) successes and no failure.
C7_EveryFourthRateLimited ==
    (caller = "main" /\ pc \in {"register_test", "login_begin"}) =>
        LET N == IF pc = "register_test" THEN i ELSE attempts
        IN  /\ stats["register_rate_limited"] = N \div RejectEvery
            /\ stats["register_success"] = N - (N \div RejectEvery)
            /\ stats["register_failed"] = 0

\* C7 witness: eight attempts made, two of them rejected.
C7_Witness ==
    /\ caller = "main"
    /\ pc = "login_begin"
    /\ attempts = 8
    /\ stats["register_rate_limited"] = 2
    /\ stats["register_success"] = 6

\* C8 as stated: once no invocation is under way, the Register calls sent
\* equal the register_user invocations and the Login calls the login_user
\* invocations.
C8_CallsEqualInvocations ==
    Running = {} =>
        /\ regCalls = regInvoked
        /\ loginCalls = loginInvoked

\* C8 amended: every invocation sends at most one remote call, and exactly one
\* unless a KeyboardInterrupt cut it short before its call was sent or it has
\* not reached its call yet: the calls sent are the invocations less those;
\* no attempt is ever re-sent.
C8_NoRetries ==
    /\ regInvoked = regCalls + regCut + Cardinality({u \in Users : fpc[u] = "taken"})
    /\ loginInvoked = loginCalls + loginCut

\* C8 witness: rate-limited and failed attempts were made and an invocation of
\* login_user was interrupted before its call.
C8_Witness ==
    /\ stats["register_rate_limited"] + stats["register_failed"] >= 1
    /\ regInvoked >= 2
    /\ regCalls = regInvoked
    /\ loginCut = 1
    /\ loginCalls = 0

\* C9: at most max_workers Register calls are in flight; created_users holds
\* the successes of the futures the collection loop has taken and nothing
\* else, and once create_users_batch has returned it holds every successful
\* registration of the batch once, whatever the completion order.
C9_BoundedPoolSameSet ==
    /\ Cardinality({u \in Users : fpc[u] = "calling"}) <= MaxWorkers
    /\ pc \in {"submit", "collect"} =>
          /\ Range(created_users) = {fres[u] : u \in {v \in collected : fres[v].success}}
          /\ Len(created_users) = Cardinality({v \in collected : fres[v].success})
    /\ batch = "returned" =>
          /\ Range(created_users) = {fres[u] : u \in {v \in Users : fout[v] = "ok"}}
          /\ Len(created_users) = Cardinality({v \in Users : fout[v] = "ok"})

\* C9 witness: the batch returned with two successes collected in the reverse
\* of their submission order.
C9_Witness ==
    /\ batch = "returned"
    /\ Len(created_users) >= 2
    /\ created_users[1].email[3] > created_users[2].email[3]

\* C10: Login calls carry the credentials of a successfully registered user,
\* created_users[0] or the test user the login test registered itself; a
\* login test whose registration failed sends no Login call and leaves the
\* login counters at their values; otherwise the login counters grow by
\* exactly `attempts`.
C10_LoginTestUser ==
    /\ loginCreds # {} =>
          /\ loginCreds = {<<test_user.email, test_user.password>>}
          /\ test_user.success
          /\ \/ (created_users # <<>> /\ test_user = created_users[1])
             \/ test_user.email = generate_random_email(<<"", TestUserIndex>>)
    /\ loginTest \in {"not_run", "skipped", "raised"} =>
          loginInvoked = 0 /\ LoginSum(stats) = 0
    /\ loginTest = "skipped" => ~test_user.success
    /\ loginTest = "running" => test_user.success
    /\ loginTest = "returned" =>
          loginInvoked = attempts /\ LoginSum(stats) = attempts

\* C10 witness: the login test ran with created_users[0] and returned.
C10_Witness ==
    /\ loginTest = "returned"
    /\ attempts >= 1
    /\ created_users # <<>>
    /\ test_user = created_users[1]
    /\ loginCreds = {<<test_user.email, test_user.password>>}
    /\ LoginSum(stats) = attempts

====
